---- MODULE Spec2Model ----
(***************************************************************************)
(* Model of the station timer / billing core of src/main.py:               *)
(* StationState (start / pause / stop / reset / current_elapsed), the      *)
(* SpaceApp command handlers that drive it, the sessions table written by  *)
(* _save_session and the dashboard labels written by _update_dashboard.    *)
(*                                                                         *)
(* Time.  time.time() is a float number of seconds.  The model counts the  *)
(* clock in ticks of 1/TicksPerSecond second, so that a reading can fall   *)
(* between two whole seconds and int(elapsed) and now_iso() (both of which *)
(* drop the fraction) are real truncations.                                *)
(*                                                                         *)
(* Money.  cost = (elapsed / 3600) * rate is a float.  The model keeps the *)
(* exact value as the numerator elapsed_ticks * rate of a fraction whose   *)
(* denominator is the fixed number SecondsPerHour * TicksPerSecond.        *)
(***************************************************************************)
EXTENDS Integers, Sequences, FiniteSets, TLC

\* ---------------------------------------------------------------- bounds
MaxTime == 3            \* the clock runs from 0 to MaxTime ticks
MaxSessions == 2        \* rows the sessions table may hold
TicksPerSecond == 2     \* clock resolution of the model
MaxItems == 1           \* item ids the items table may hand out
MaxSales == 1           \* rows the item_sales table may hold
MaxCash == 1            \* rows the cash_transactions table may hold

\* ------------------------------------------------------ program constants
SecondsPerHour == 3600
SecondsPerDay == 86400
MaxMicrosecond == 999999

\* STATIONS: two of the five configured stations, one of each type.
Stations == {"Table 1", "PlayStation 1"}

\* The station card the operator works in Spec.  The stations share only
\* the clock and the sessions table; every other station stays as built.
Operated == {"Table 1"}

\* STATIONS[i]["rate_per_hour"]
StationRate(s) == IF s = "Table 1" THEN 60 ELSE 40

\* values the operator may type into a station's rate entry
Rates == {40, 60}

\* values the operator may type into a station's customer entry
Names == {"", "Ann"}

\* Python's None for StationState.start_ts; a set anchor t is <<t>>.
None == <<>>

\* texts the operator may type into the Name entry of an ItemDialog, as
\* sequences of characters
NameTexts == {<<>>, <<" ">>, <<"T">>, <<" ", "T">>}

\* values the operator may type into the Price entry of an ItemDialog
Prices == {-5, 0, 25, 30}

\* values the operator may type into the Qty entry of a SaleDialog
Qtys == {-1, 0, 1, 3}

\* the tree selection when no row is selected
NoSelection == 0

\* texts the operator may leave in the Type combobox of the cash form; the
\* combobox offers the first two and, being editable, takes any text
CashTypes == {"deposit", "withdrawal", "refund"}

\* values the operator may type into the Amount entry of the cash form
Amounts == {-5, 0, 5}

\* texts the operator may type into the Notes entry of the cash form
NotesTexts == {"", "till"}

VARIABLES
    now,            \* reading of time.time(), in ticks
    running,        \* StationState.running, per station
    paused,         \* StationState.paused
    start_ts,       \* StationState.start_ts (the anchor): None or <<t>>
    elapsed,        \* StationState.elapsed (accumulated), in ticks
    customer_name,  \* StationState.customer_name
    rate_var,       \* station["rate_var"]
    sessions,       \* rows of the sessions table, in insertion order
    lastCmd,        \* history: per station, the last command that took effect
    started,        \* history: per station, the last start() that took effect
    active,         \* history: per station, ticks spent Running since reset
    notified,       \* history: the on_update calls of the last command, when recorded
    items,          \* the items table: id -> [name, price]
    nextItemId,     \* the AUTOINCREMENT counter of the items table
    item_sales,     \* rows of the item_sales table, in insertion order
    cash_transactions, \* rows of the cash_transactions table
    itemDialogs,    \* the open ItemDialog windows
    saleDialogs,    \* the open SaleDialog windows
    cash_type,      \* SpaceApp.cash_type (the Type combobox)
    cash_amount,    \* SpaceApp.cash_amount
    cash_notes,     \* SpaceApp.cash_notes
    lastShop        \* history: outcome of the last items / cash command

\* the items tab and the cash register tab
shop == <<items, nextItemId, item_sales, cash_transactions, itemDialogs,
          saleDialogs, cash_type, cash_amount, cash_notes, lastShop>>

vars == <<now, running, paused, start_ts, elapsed, customer_name, rate_var,
          sessions, lastCmd, started, active, notified, shop>>

\* the station cards
stations == <<running, paused, start_ts, elapsed, customer_name, rate_var,
              sessions, lastCmd, started, active, notified>>

engine == <<running, paused, start_ts, elapsed>>

\* ------------------------------------------------------- pure functions

\* int(x) for x >= 0 seconds held as ticks: the whole seconds.
WholeSeconds(x) == x \div TicksPerSecond

\* now_iso(): the local time at second precision.  The ISO text is held as
\* the count of whole seconds, whose numeric order is the text's order.
now_iso == now \div TicksPerSecond

\* the cost worked out from the whole seconds instead of the elapsed time
Cost_OfWholeSeconds(e, rate) == (e \div TicksPerSecond) * TicksPerSecond * rate

\* (elapsed / 3600) * rate, as the numerator over SecondsPerHour*TicksPerSecond
Cost(e, rate) == e * rate

\* current_elapsed that tests running only, not paused
Elapsed_IgnoresPause(run, pau, st, el, t) ==
    IF run THEN el + (t - Head(st)) ELSE el

\* StationState.current_elapsed, on explicit field values at clock reading t
Elapsed(run, pau, st, el, t) ==
    IF run /\ ~pau THEN el + (t - Head(st)) ELSE el

\* StationState.current_elapsed of station s in the current state
current_elapsed(s) == Elapsed(running[s], paused[s], start_ts[s], elapsed[s], now)

\* the three states the (running, paused) flags encode
StateOf(run, pau) == IF run THEN (IF pau THEN "Paused" ELSE "Active") ELSE "Stopped"

IsStopped(s) == ~running[s]
IsRunning(s) == running[s] /\ ~paused[s]
IsPaused(s) == running[s] /\ paused[s]

\* format_currency(amount): the amount in hundredths, rounded half to even
\* as "%.2f" rounds; amount is a numerator over SecondsPerHour*TicksPerSecond.
\* The text is held as the count of hundredths.
format_currency(amount) ==
    LET den == SecondsPerHour * TicksPerSecond
        q == (amount * 100) \div den
        r == (amount * 100) % den
    IN IF 2 * r > den \/ (2 * r = den /\ q % 2 = 1) THEN q + 1 ELSE q

\* _update_dashboard that prices the time at the configured rate
Dashboard_ConfiguredRate(run, pau, st, el, rate, t) ==
    [s \in Stations |->
        LET e == Elapsed(run[s], pau[s], st[s], el[s], t) IN
        [timer |-> WholeSeconds(e) % SecondsPerDay,
         cost  |-> Cost(e, StationRate(s)),
         cost_label |-> format_currency(Cost(e, StationRate(s))),
         state |-> StateOf(run[s], pau[s])]]

\* SpaceApp._update_dashboard: the cost it computes and the labels it draws
\* from the given fields
Dashboard(run, pau, st, el, rate, t) ==
    [s \in Stations |->
        LET e == Elapsed(run[s], pau[s], st[s], el[s], t) IN
        [timer |-> WholeSeconds(e) % SecondsPerDay,
         cost  |-> Cost(e, rate[s]),
         cost_label |-> format_currency(Cost(e, rate[s])),
         state |-> StateOf(run[s], pau[s])]]

\* history record of a station on which no start() has taken effect
NotStarted == [at |-> 0, base |-> 0, paused |-> FALSE, clean |-> TRUE]

\* ------------------------------------------------------------------ Init
Init ==
    /\ now = 0
    /\ running = [s \in Stations |-> FALSE]
    /\ paused = [s \in Stations |-> FALSE]
    /\ start_ts = [s \in Stations |-> None]
    /\ elapsed = [s \in Stations |-> 0]
    /\ customer_name = [s \in Stations |-> ""]
    /\ rate_var = [s \in Stations |-> StationRate(s)]
    /\ sessions = <<>>
    /\ lastCmd = [s \in Stations |-> "none"]
    /\ started = [s \in Stations |-> NotStarted]
    /\ active = [s \in Stations |-> 0]
    /\ notified = [on |-> FALSE, calls |-> <<>>]
    /\ items = <<>>
    /\ nextItemId = 1
    /\ item_sales = <<>>
    /\ cash_transactions = <<>>
    /\ itemDialogs = {}
    /\ saleDialogs = {}
    /\ cash_type = "deposit"
    /\ cash_amount = 0
    /\ cash_notes = ""
    /\ lastShop = "none"

\* ------------------------------------------------- StationState methods
\* Each method is an action on the fields of station s; its early return
\* leaves them alone.  The on_update callback redraws the labels from the
\* fields (Dashboard) and changes none of them.

\* The calls of on_update are a history: notified.calls lists, for the last
\* command, the fields each call of the callback has read.  The history is
\* kept only under a specification that starts with notified.on (SpecNotify);
\* elsewhere notified stays as built.

\* the callback called before the method has assigned the fields
on_update_Early ==
    notified' = IF notified.on THEN [notified EXCEPT !.calls = <<engine>>] ELSE notified

\* self.on_update(), the last statement of each method: one call of
\* SpaceApp._update_dashboard, made in the method's own thread, which reads
\* the fields of every station as the method has left them
on_update ==
    notified' = IF notified.on THEN [notified EXCEPT !.calls = <<engine'>>] ELSE notified

\* the early return of a method: it comes back without calling on_update
NoUpdate ==
    notified' = IF notified.on THEN [notified EXCEPT !.calls = <<>>] ELSE notified

\* start() that clears the accumulated elapsed
StationStart_ZeroesElapsed(s) ==
    IF running[s]
    THEN UNCHANGED <<running, paused, start_ts, elapsed>> /\ NoUpdate
    ELSE /\ running' = [running EXCEPT ![s] = TRUE]
         /\ paused' = [paused EXCEPT ![s] = FALSE]
         /\ start_ts' = [start_ts EXCEPT ![s] = <<now>>]
         /\ elapsed' = [elapsed EXCEPT ![s] = 0]
         /\ on_update

\* StationState.start
StationStart(s) ==
    IF running[s]
    THEN UNCHANGED <<running, paused, start_ts, elapsed>> /\ NoUpdate
    ELSE /\ running' = [running EXCEPT ![s] = TRUE]
         /\ paused' = [paused EXCEPT ![s] = FALSE]
         /\ start_ts' = [start_ts EXCEPT ![s] = <<now>>]
         /\ UNCHANGED elapsed
         /\ on_update

\* pause() whose resume branch keeps the old anchor
StationPause_KeepsAnchor(s) ==
    IF ~running[s]
    THEN UNCHANGED <<running, paused, start_ts, elapsed>> /\ NoUpdate
    ELSE /\ IF ~paused[s]
            THEN /\ elapsed' = [elapsed EXCEPT ![s] = @ + (now - Head(start_ts[s]))]
                 /\ paused' = [paused EXCEPT ![s] = TRUE]
                 /\ UNCHANGED start_ts
            ELSE /\ paused' = [paused EXCEPT ![s] = FALSE]
                 /\ UNCHANGED <<start_ts, elapsed>>
         /\ UNCHANGED running
         /\ on_update

\* pause() whose pause branch does not add the running interval
StationPause_DropsInterval(s) ==
    IF ~running[s]
    THEN UNCHANGED <<running, paused, start_ts, elapsed>> /\ NoUpdate
    ELSE /\ IF ~paused[s]
            THEN /\ paused' = [paused EXCEPT ![s] = TRUE]
                 /\ UNCHANGED <<start_ts, elapsed>>
            ELSE /\ start_ts' = [start_ts EXCEPT ![s] = <<now>>]
                 /\ paused' = [paused EXCEPT ![s] = FALSE]
                 /\ UNCHANGED elapsed
         /\ UNCHANGED running
         /\ on_update

\* StationState.pause: pause when Running, resume when Paused
StationPause(s) ==
    IF ~running[s]
    THEN UNCHANGED <<running, paused, start_ts, elapsed>> /\ NoUpdate
    ELSE /\ IF ~paused[s]
            THEN /\ elapsed' = [elapsed EXCEPT ![s] = @ + (now - Head(start_ts[s]))]
                 /\ paused' = [paused EXCEPT ![s] = TRUE]
                 /\ UNCHANGED start_ts
            ELSE /\ start_ts' = [start_ts EXCEPT ![s] = <<now>>]
                 /\ paused' = [paused EXCEPT ![s] = FALSE]
                 /\ UNCHANGED elapsed
         /\ UNCHANGED running
         /\ on_update

\* stop() that does not add the running interval
StationStop_NoFold(s) ==
    IF ~running[s]
    THEN UNCHANGED <<running, paused, start_ts, elapsed>> /\ NoUpdate
    ELSE /\ running' = [running EXCEPT ![s] = FALSE]
         /\ paused' = [paused EXCEPT ![s] = FALSE]
         /\ UNCHANGED <<start_ts, elapsed>>
         /\ on_update

\* stop() that leaves the paused flag as it is
StationStop_KeepsPaused(s) ==
    IF ~running[s]
    THEN UNCHANGED <<running, paused, start_ts, elapsed>> /\ NoUpdate
    ELSE /\ IF ~paused[s]
            THEN elapsed' = [elapsed EXCEPT ![s] = @ + (now - Head(start_ts[s]))]
            ELSE UNCHANGED elapsed
         /\ running' = [running EXCEPT ![s] = FALSE]
         /\ UNCHANGED <<paused, start_ts>>
         /\ on_update

\* StationState.stop
StationStop(s) ==
    IF ~running[s]
    THEN UNCHANGED <<running, paused, start_ts, elapsed>> /\ NoUpdate
    ELSE /\ IF ~paused[s]
            THEN elapsed' = [elapsed EXCEPT ![s] = @ + (now - Head(start_ts[s]))]
            ELSE UNCHANGED elapsed
         /\ running' = [running EXCEPT ![s] = FALSE]
         /\ paused' = [paused EXCEPT ![s] = FALSE]
         /\ UNCHANGED start_ts
         /\ on_update

\* reset() that leaves the customer name
StationReset_KeepsCustomer(s) ==
    /\ running' = [running EXCEPT ![s] = FALSE]
    /\ paused' = [paused EXCEPT ![s] = FALSE]
    /\ start_ts' = [start_ts EXCEPT ![s] = None]
    /\ elapsed' = [elapsed EXCEPT ![s] = 0]
    /\ UNCHANGED customer_name
    /\ on_update

\* reset() that clears the fields of every station
StationReset_AllStations(s) ==
    /\ running' = [o \in Stations |-> FALSE]
    /\ paused' = [o \in Stations |-> FALSE]
    /\ start_ts' = [o \in Stations |-> None]
    /\ elapsed' = [o \in Stations |-> 0]
    /\ customer_name' = [o \in Stations |-> ""]
    /\ on_update

\* StationState.reset
StationReset(s) ==
    /\ running' = [running EXCEPT ![s] = FALSE]
    /\ paused' = [paused EXCEPT ![s] = FALSE]
    /\ start_ts' = [start_ts EXCEPT ![s] = None]
    /\ elapsed' = [elapsed EXCEPT ![s] = 0]
    /\ customer_name' = [customer_name EXCEPT ![s] = ""]
    /\ on_update

\* ------------------------------------------------------ the sessions row
\* the tuple SpaceApp._save_session inserts
SessionRow(station_name, customer, el, rate, cost) ==
    [station_name     |-> station_name,
     customer_name    |-> customer,
     start_ts         |-> now_iso,
     end_ts           |-> now_iso,
     duration_seconds |-> WholeSeconds(el),
     rate_per_hour    |-> rate,
     cost             |-> cost]

\* _save_session that skips a session of less than a second
SaveSession_SkipsEmpty(station_name, customer, el, rate, cost) ==
    sessions' = IF WholeSeconds(el) > 0
                THEN Append(sessions, SessionRow(station_name, customer, el, rate, cost))
                ELSE sessions

\* SpaceApp._save_session
SaveSession(station_name, customer, el, rate, cost) ==
    sessions' = Append(sessions, SessionRow(station_name, customer, el, rate, cost))

\* ------------------------------------------------------ command handlers
\* c is the text of the station's customer entry (customer_var) when the
\* command is issued.

\* SpaceApp._start_station
StartStation(s, c) ==
    /\ customer_name' = [customer_name EXCEPT ![s] = c]
    /\ StationStart(s)
    /\ lastCmd' = IF running[s] THEN lastCmd ELSE [lastCmd EXCEPT ![s] = "start"]
    /\ started' = IF running[s] THEN started
                  ELSE [started EXCEPT ![s] = [at |-> now, base |-> elapsed[s], paused |-> FALSE,
                                               clean |-> lastCmd[s] \in {"none", "reset"}]]
    /\ UNCHANGED <<now, rate_var, sessions, active, shop>>

\* SpaceApp._pause_station
PauseStation(s) ==
    /\ StationPause(s)
    /\ lastCmd' = IF ~running[s] THEN lastCmd
                  ELSE [lastCmd EXCEPT ![s] = IF paused[s] THEN "resume" ELSE "pause"]
    /\ started' = IF running[s] /\ ~paused[s]
                  THEN [started EXCEPT ![s].paused = TRUE]
                  ELSE started
    /\ UNCHANGED <<now, customer_name, rate_var, sessions, active, shop>>

\* SpaceApp._stop_station
StopStation(s) ==
    /\ running[s] => Len(sessions) < MaxSessions
    /\ IF ~running[s]
       THEN UNCHANGED <<running, paused, start_ts, elapsed, sessions>> /\ NoUpdate
       ELSE /\ StationStop(s)
            /\ LET el == Elapsed(running'[s], paused'[s], start_ts'[s], elapsed'[s], now)
                   cost == Cost(el, rate_var[s])
               IN SaveSession(s, customer_name[s], el, rate_var[s], cost)
    /\ lastCmd' = IF ~running[s] THEN lastCmd ELSE [lastCmd EXCEPT ![s] = "stop"]
    /\ UNCHANGED <<now, customer_name, rate_var, started, active, shop>>

\* SpaceApp._reset_station
ResetStation(s) ==
    /\ StationReset(s)
    /\ lastCmd' = [lastCmd EXCEPT ![s] = "reset"]
    /\ active' = [active EXCEPT ![s] = 0]
    /\ UNCHANGED <<now, rate_var, sessions, started, shop>>

\* SpaceApp._schedule_tick: the 1 Hz redraw of the dashboard; it reads the
\* fields and changes none
ScheduleTick ==
    /\ Dashboard(running, paused, start_ts, elapsed, rate_var, now) \in [Stations -> [timer : Nat, cost : Int, cost_label : Int,
                          state : {"Stopped", "Active", "Paused"}]]
    /\ UNCHANGED vars

\* the operator edits the rate entry of a station card (rate_var)
SetRate(s, r) ==
    /\ r # rate_var[s]
    /\ rate_var' = [rate_var EXCEPT ![s] = r]
    /\ UNCHANGED <<now, engine, customer_name, sessions, lastCmd, started, active, notified, shop>>

\* time passes: the next reading of time.time() is one tick later
AdvanceClock ==
    /\ now < MaxTime
    /\ now' = now + 1
    /\ active' = [s \in Stations |-> IF IsRunning(s) THEN active[s] + 1 ELSE active[s]]
    /\ UNCHANGED <<engine, customer_name, rate_var, sessions, lastCmd, started, notified, shop>>

Next ==
    \/ \E s \in Operated, c \in Names : StartStation(s, c)
    \/ \E s \in Operated : PauseStation(s)
    \/ \E s \in Operated : StopStation(s)
    \/ \E s \in Operated : ResetStation(s)
    \/ ScheduleTick
    \/ \E s \in Operated, r \in Rates : SetRate(s, r)
    \/ AdvanceClock

Spec == Init /\ [][Next]_vars

\* ------------------------------------------------ a failing sessions store
\* SpaceApp._stop_station when sqlite3 raises inside _save_session (database
\* locked, disk full, file not writable): state.stop() has already run, the
\* INSERT is rolled back, and the exception leaves the handler before the
\* status line is set.
StopStationFails(s) ==
    /\ running[s]
    /\ StationStop(s)
    /\ lastCmd' = [lastCmd EXCEPT ![s] = "stop_failed"]
    /\ UNCHANGED <<now, customer_name, rate_var, sessions, started, active, shop>>

\* the station cards over a store that may refuse a write
NextStorage ==
    \/ \E s \in Operated, c \in Names : StartStation(s, c)
    \/ \E s \in Operated : PauseStation(s)
    \/ \E s \in Operated : StopStation(s)
    \/ \E s \in Operated : StopStationFails(s)
    \/ \E s \in Operated : ResetStation(s)
    \/ AdvanceClock

SpecStorage == Init /\ [][NextStorage]_vars

\* ------------------------------------------- the callback under observation
\* the state after construction, with the calls of on_update recorded
InitNotify ==
    /\ now = 0
    /\ running = [s \in Stations |-> FALSE]
    /\ paused = [s \in Stations |-> FALSE]
    /\ start_ts = [s \in Stations |-> None]
    /\ elapsed = [s \in Stations |-> 0]
    /\ customer_name = [s \in Stations |-> ""]
    /\ rate_var = [s \in Stations |-> StationRate(s)]
    /\ sessions = <<>>
    /\ lastCmd = [s \in Stations |-> "none"]
    /\ started = [s \in Stations |-> NotStarted]
    /\ active = [s \in Stations |-> 0]
    /\ notified = [on |-> TRUE, calls |-> <<>>]
    /\ items = <<>>
    /\ nextItemId = 1
    /\ item_sales = <<>>
    /\ cash_transactions = <<>>
    /\ itemDialogs = {}
    /\ saleDialogs = {}
    /\ cash_type = "deposit"
    /\ cash_amount = 0
    /\ cash_notes = ""
    /\ lastShop = "none"

\* the commands of a station card and the clock
NextNotify ==
    \/ \E s \in Operated, c \in Names : StartStation(s, c)
    \/ \E s \in Operated : PauseStation(s)
    \/ \E s \in Operated : StopStation(s)
    \/ \E s \in Operated : ResetStation(s)
    \/ AdvanceClock

SpecNotify == InitNotify /\ [][NextNotify]_vars

\* ------------------------------------------------------ two station cards
\* the commands of both station cards, each customer entry holding Ann, and
\* the clock
NextPair ==
    \/ \E s \in Stations : StartStation(s, "Ann")
    \/ \E s \in Stations : PauseStation(s)
    \/ \E s \in Stations : StopStation(s)
    \/ \E s \in Stations : ResetStation(s)
    \/ AdvanceClock

SpecPair == Init /\ [][NextPair]_vars

\* ------------------------------------------------- any number as the rate
\* what the operator can type into the rate entry: the Entry is bound to a
\* DoubleVar and nothing checks the sign
TypedRates == Rates \cup {-60}

\* the station cards with the rate entry taking any typed number
NextAnyRate ==
    \/ \E s \in Operated, c \in Names : StartStation(s, c)
    \/ \E s \in Operated : StopStation(s)
    \/ \E s \in Operated : ResetStation(s)
    \/ \E s \in Operated, r \in TypedRates : SetRate(s, r)
    \/ AdvanceClock

SpecAnyRate == Init /\ [][NextAnyRate]_vars

\* ---------------------------------------------------------- the items tab

\* str.strip(): the text without its leading and trailing blanks
RECURSIVE LStrip(_)
LStrip(x) == IF x # <<>> /\ Head(x) = " " THEN LStrip(Tail(x)) ELSE x

RECURSIVE RStrip(_)
RStrip(x) == IF x # <<>> /\ x[Len(x)] = " " THEN RStrip(SubSeq(x, 1, Len(x) - 1)) ELSE x

Strip(x) == RStrip(LStrip(x))

\* the rows of the items tree: _refresh_items reloads it from the items
\* table after every insert, update and delete, so it lists that table
ItemIds == DOMAIN items

\* the test of ItemDialog._save made on the text as typed
ValidItem_Unstripped(text, price) == text # <<>> /\ price > 0

\* ItemDialog._save: the test that lets a name and a price through
ValidItem(text, price) == ~(Strip(text) = <<>> \/ price <= 0)

\* the test of SaleDialog._confirm with qty < 0 in place of qty <= 0
ValidQty_AllowsZero(qty) == ~(qty < 0)

\* SaleDialog._confirm: the test that lets a quantity through
ValidQty(qty) == ~(qty <= 0)

\* SpaceApp._add_item: opens an ItemDialog that saves a new item
AddItem ==
    /\ itemDialogs' = itemDialogs \cup {[kind |-> "add", item_id |-> 0]}
    /\ UNCHANGED <<now, stations, items, nextItemId, item_sales, cash_transactions,
                   saleDialogs, cash_type, cash_amount, cash_notes, lastShop>>

\* SpaceApp._edit_item: opens an ItemDialog that updates the selected item
EditItem(sel) ==
    /\ itemDialogs' = IF sel = NoSelection \/ sel \notin ItemIds
                      THEN itemDialogs
                      ELSE itemDialogs \cup {[kind |-> "edit", item_id |-> sel]}
    /\ UNCHANGED <<now, stations, items, nextItemId, item_sales, cash_transactions,
                   saleDialogs, cash_type, cash_amount, cash_notes, lastShop>>

\* SpaceApp._save_new_item
SaveNewItem(name, price) ==
    /\ items' = [i \in ItemIds \cup {nextItemId} |->
                    IF i = nextItemId THEN [name |-> name, price |-> price] ELSE items[i]]
    /\ nextItemId' = nextItemId + 1

\* SpaceApp._update_item: an UPDATE that matches no row changes nothing
UpdateItem(item_id, name, price) ==
    /\ items' = [i \in ItemIds |->
                    IF i = item_id THEN [name |-> name, price |-> price] ELSE items[i]]
    /\ UNCHANGED nextItemId

\* ItemDialog._save with the typed name text and price, in dialog d
ItemDialogSave(d, text, price) ==
    /\ d \in itemDialogs
    /\ (d.kind = "add" /\ ValidItem(text, price)) => nextItemId <= MaxItems
    /\ IF ~ValidItem(text, price)
       THEN /\ lastShop' = "item_rejected"
            /\ UNCHANGED <<items, nextItemId, itemDialogs>>
       ELSE /\ IF d.kind = "add"
               THEN SaveNewItem(Strip(text), price)
               ELSE UpdateItem(d.item_id, Strip(text), price)
            /\ itemDialogs' = itemDialogs \ {d}
            /\ lastShop' = IF d.kind = "add" THEN "item_saved" ELSE "item_updated"
    /\ UNCHANGED <<now, stations, item_sales, cash_transactions, saleDialogs,
                   cash_type, cash_amount, cash_notes>>

\* the operator closes an ItemDialog without saving
CloseItemDialog(d) ==
    /\ d \in itemDialogs
    /\ itemDialogs' = itemDialogs \ {d}
    /\ UNCHANGED <<now, stations, items, nextItemId, item_sales, cash_transactions,
                   saleDialogs, cash_type, cash_amount, cash_notes, lastShop>>

\* the DELETE of _delete_item with the sales of the item deleted as well
DeleteRow_Cascade(item_id) ==
    /\ items' = [i \in ItemIds \ {item_id} |-> items[i]]
    /\ item_sales' = SelectSeq(item_sales, LAMBDA r : r.item_id # item_id)

\* the DELETE of _delete_item: foreign keys are not enforced, the sales stay
DeleteRow(item_id) ==
    /\ items' = [i \in ItemIds \ {item_id} |-> items[i]]
    /\ UNCHANGED item_sales

\* SpaceApp._delete_item on the selection, with the answer to the question
DeleteItem(sel, yes) ==
    /\ IF sel = NoSelection \/ sel \notin ItemIds \/ ~yes
       THEN UNCHANGED <<items, item_sales, lastShop>>
       ELSE /\ DeleteRow(sel)
            /\ lastShop' = "item_deleted"
    /\ UNCHANGED <<now, stations, nextItemId, cash_transactions, itemDialogs,
                   saleDialogs, cash_type, cash_amount, cash_notes>>

\* SpaceApp._sell_item: opens a SaleDialog whose on_sale holds the item id
\* and the price read now
SellItem(sel) ==
    /\ saleDialogs' = IF sel = NoSelection \/ sel \notin ItemIds
                      THEN saleDialogs
                      ELSE saleDialogs \cup {[item_id |-> sel, price |-> items[sel].price]}
    /\ UNCHANGED <<now, stations, items, nextItemId, item_sales, cash_transactions,
                   itemDialogs, cash_type, cash_amount, cash_notes, lastShop>>

\* SpaceApp._record_sale
RecordSale(item_id, price, qty) ==
    item_sales' = Append(item_sales,
                         [ts |-> now_iso, item_id |-> item_id, qty |-> qty,
                          total |-> price * qty])

\* SaleDialog._confirm with the typed quantity, in dialog d
SaleDialogConfirm(d, qty) ==
    /\ d \in saleDialogs
    /\ ValidQty(qty) => Len(item_sales) < MaxSales
    /\ IF ~ValidQty(qty)
       THEN /\ lastShop' = "sale_rejected"
            /\ UNCHANGED <<item_sales, saleDialogs>>
       ELSE /\ RecordSale(d.item_id, d.price, qty)
            /\ saleDialogs' = saleDialogs \ {d}
            /\ lastShop' = "sale_recorded"
    /\ UNCHANGED <<now, stations, items, nextItemId, cash_transactions, itemDialogs,
                   cash_type, cash_amount, cash_notes>>

\* the operator closes a SaleDialog without confirming
CloseSaleDialog(d) ==
    /\ d \in saleDialogs
    /\ saleDialogs' = saleDialogs \ {d}
    /\ UNCHANGED <<now, stations, items, nextItemId, item_sales, cash_transactions,
                   itemDialogs, cash_type, cash_amount, cash_notes, lastShop>>

\* every ItemDialog and SaleDialog that may be open
AllItemDialogs == {[kind |-> "add", item_id |-> 0]}
                  \cup {[kind |-> "edit", item_id |-> i] : i \in 1..MaxItems}
AllSaleDialogs == [item_id : 1..MaxItems, price : Prices]

\* the items tab.  The clock stands still: a sale's timestamp is now_iso()
\* and nothing else in the tab reads the time.
NextItems ==
    \/ AddItem
    \/ \E sel \in 0..MaxItems : EditItem(sel)
    \/ \E d \in AllItemDialogs, text \in NameTexts, price \in Prices : ItemDialogSave(d, text, price)
    \/ \E d \in AllItemDialogs : CloseItemDialog(d)
    \/ \E sel \in 0..MaxItems, yes \in BOOLEAN : DeleteItem(sel, yes)
    \/ \E sel \in 0..MaxItems : SellItem(sel)
    \/ \E d \in AllSaleDialogs, qty \in Qtys : SaleDialogConfirm(d, qty)
    \/ \E d \in AllSaleDialogs : CloseSaleDialog(d)

SpecItems == Init /\ [][NextItems]_vars

\* --------------------------------------------------- the cash register tab

\* the test of _add_cash with amount < 0 in place of amount <= 0
ValidAmount_AllowsZero(amount) == ~(amount < 0)

\* SpaceApp._add_cash: the test that lets an amount through
ValidAmount(amount) == ~(amount <= 0)

\* the operator fills in the cash form (cash_type, cash_amount, cash_notes)
FillCashForm(type, amount, notes) ==
    /\ <<type, amount, notes>> # <<cash_type, cash_amount, cash_notes>>
    /\ cash_type' = type
    /\ cash_amount' = amount
    /\ cash_notes' = notes
    /\ UNCHANGED <<now, stations, items, nextItemId, item_sales, cash_transactions,
                   itemDialogs, saleDialogs, lastShop>>

\* SpaceApp._add_cash
AddCash ==
    /\ ValidAmount(cash_amount) => Len(cash_transactions) < MaxCash
    /\ IF ~ValidAmount(cash_amount)
       THEN /\ lastShop' = "cash_rejected"
            /\ UNCHANGED <<cash_transactions, cash_amount, cash_notes>>
       ELSE /\ cash_transactions' = Append(cash_transactions,
                    [ts |-> now_iso, type |-> cash_type, amount |-> cash_amount,
                     notes |-> cash_notes])
            /\ cash_amount' = 0
            /\ cash_notes' = ""
            /\ lastShop' = "cash_added"
    /\ UNCHANGED <<now, stations, items, nextItemId, item_sales, itemDialogs,
                   saleDialogs, cash_type>>

\* the cash register tab, with the clock
NextCash ==
    \/ \E type \in CashTypes, amount \in Amounts, notes \in NotesTexts :
            FillCashForm(type, amount, notes)
    \/ AddCash
    \/ AdvanceClock

SpecCash == Init /\ [][NextCash]_vars

\* ------------------------------------------------- the three tables at once
\* every handler that writes to the database, on one station card, the items
\* tab and the cash tab together, each with inputs it accepts: the operator
\* works on the first item of the tree, saves price 25 in the add dialog and
\* price 30 in the edit dialog; the clock stands still
NextTables ==
    \/ \E s \in Operated : StartStation(s, "Ann")
    \/ \E s \in Operated : StopStation(s)
    \/ AddItem
    \/ EditItem(1)
    \/ \E d \in AllItemDialogs : ItemDialogSave(d, <<"T">>, IF d.kind = "add" THEN 25 ELSE 30)
    \/ DeleteItem(1, TRUE)
    \/ SellItem(1)
    \/ \E d \in AllSaleDialogs : SaleDialogConfirm(d, 1)
    \/ FillCashForm("deposit", 5, "till")
    \/ AddCash

SpecTables == Init /\ [][NextTables]_vars

\* ------------------------------------------------------- the reports tab
\* Calendar.  The clock reading 0 is 23:59:59 on 31 January of a common
\* year, so that the end of a day and of a month falls inside the run; days
\* are counted from 1 January.  A stored timestamp is now_iso() at the time
\* of the insert: whole seconds from the clock reading 0, below 0 for a row
\* an earlier run has left in the database file.
MonthDays == <<31, 28, 31, 30>>
ClockZero == MonthDays[1] * SecondsPerDay - 1

\* the day a timestamp falls on
DayOf(ts) == (ts + ClockZero) \div SecondsPerDay

\* the timestamp of 00:00:00 on day d
Midnight(d) == d * SecondsPerDay - ClockZero

\* dt.date.today()
Today == DayOf(now_iso)

\* the first day of the month day d falls in, looking from month m on, whose
\* first day is first
RECURSIVE FirstDayOfMonth(_, _, _)
FirstDayOfMonth(d, m, first) ==
    IF d < first + MonthDays[m] THEN first
    ELSE FirstDayOfMonth(d, m + 1, first + MonthDays[m])

\* datetime.isoformat(): "YYYY-MM-DDTHH:MM:SS", followed by ".ffffff" when
\* the microsecond is not 0.  The text is held as <<seconds>> or as
\* <<seconds, microsecond>>.
isoformat(ts, us) == IF us = 0 THEN <<ts>> ELSE <<ts, us>>

\* the order of SQLite on TEXT values: character by character, a text
\* before every longer text it begins
RECURSIVE TextLE(_, _)
TextLE(a, b) ==
    IF a = <<>> THEN TRUE
    ELSE IF b = <<>> THEN FALSE
    ELSE IF Head(a) # Head(b) THEN Head(a) < Head(b)
    ELSE TextLE(Tail(a), Tail(b))

\* x BETWEEN lo AND hi
Between(x, lo, hi) == TextLE(lo, x) /\ TextLE(x, hi)

\* the window that ends at the midnight after it
ReportWindow_ToNextMidnight(mode) ==
    IF mode = "daily"
    THEN [start |-> isoformat(Midnight(Today), 0),
          end   |-> isoformat(Midnight(Today + 1), 0)]
    ELSE LET first == FirstDayOfMonth(Today, 1, 0)
             next_month == first + 32
         IN [start |-> isoformat(Midnight(first), 0),
             end   |-> isoformat(Midnight(FirstDayOfMonth(next_month, 1, 0)), 0)]

\* _build_report: start.isoformat() and end.isoformat() of the mode
ReportWindow(mode) ==
    IF mode = "daily"
    THEN [start |-> isoformat(Midnight(Today), 0),
          end   |-> isoformat(Midnight(Today) + SecondsPerDay - 1, MaxMicrosecond)]
    ELSE LET first == FirstDayOfMonth(Today, 1, 0)
             next_month == first + 32
         IN [start |-> isoformat(Midnight(first), 0),
             end   |-> isoformat(Midnight(FirstDayOfMonth(next_month, 1, 0)) - 1, 0)]

\* the stored timestamp ts passes the WHERE clause of the mode's queries
InWindow(ts, mode) ==
    Between(isoformat(ts, 0), ReportWindow(mode).start, ReportWindow(mode).end)

\* the sum of the column col over the rows
RECURSIVE SumOf(_, _)
SumOf(col, rows) == IF rows = <<>> THEN 0 ELSE Head(rows)[col] + SumOf(col, Tail(rows))

\* SUM(col) of SQL over the rows selected: NULL (None) when there is none
SqlSum(col, rows) == IF rows = <<>> THEN None ELSE <<SumOf(col, rows)>>

\* COALESCE(x, 0)
Coalesce0(x) == IF x = None THEN 0 ELSE Head(x)

\* an amount of whole EGP as a numerator over SecondsPerHour*TicksPerSecond,
\* the unit of Cost
InCostUnits(x) == x * SecondsPerHour * TicksPerSecond

\* CASE WHEN type = 'deposit' THEN amount ELSE -amount END
SignedAmount(r) == IF r.type = "deposit" THEN r.amount ELSE 0 - r.amount

\* the rows with the CASE expression worked out as a column
RECURSIVE Signed(_)
Signed(rows) ==
    IF rows = <<>> THEN <<>>
    ELSE <<[signed |-> SignedAmount(Head(rows))]>> \o Signed(Tail(rows))

\* SpaceApp._build_report: the four figures it writes into report_text, the
\* first and the last as numerators in the unit of Cost, the two between in
\* whole EGP
Report(mode) ==
    LET sessions_total ==
            Coalesce0(SqlSum("cost", SelectSeq(sessions, LAMBDA r : InWindow(r.start_ts, mode))))
        sales_total ==
            Coalesce0(SqlSum("total", SelectSeq(item_sales, LAMBDA r : InWindow(r.ts, mode))))
        cash_total ==
            Coalesce0(SqlSum("signed",
                Signed(SelectSeq(cash_transactions, LAMBDA r : InWindow(r.ts, mode)))))
    IN [session_revenue |-> sessions_total,
        item_sales      |-> sales_total,
        cash_net        |-> cash_total,
        total_revenue   |-> sessions_total + InCostUnits(sales_total)]

\* SpaceApp._export_report: the rows it writes to the CSV file, each amount
\* as "%.2f" prints it, in hundredths
ExportRows ==
    LET sessions_total == Coalesce0(SqlSum("cost", sessions))
        sales_total == Coalesce0(SqlSum("total", item_sales))
        cash_total == Coalesce0(SqlSum("signed", Signed(cash_transactions)))
    IN << <<"Section", "Amount (EGP)">>,
          <<"Sessions", format_currency(sessions_total)>>,
          <<"Item Sales", format_currency(InCostUnits(sales_total))>>,
          <<"Cash Net", format_currency(InCostUnits(cash_total))>> >>

\* the Daily Report and Monthly Report buttons: the report is worked out
\* from the tables and the date and shown; no table changes
BuildReport(mode) ==
    /\ Report(mode) \in [session_revenue : Int, item_sales : Int, cash_net : Int,
                         total_revenue : Int]
    /\ UNCHANGED vars

\* the Export CSV button, with a file chosen
ExportReport ==
    /\ Len(ExportRows) = 4
    /\ UNCHANGED vars

\* timestamps of the rows earlier runs have left: the first and the last
\* second of 31 January and of 1 February, and the seconds next to them
StoredTimes == {Midnight(d) - e : d \in {DayOf(0), DayOf(0) + 1, DayOf(0) + 2}, e \in {0, 1}}

\* a sessions row of one second at 60 EGP an hour, saved at ts
StoredSession(ts) ==
    [station_name |-> "Table 1", customer_name |-> "Ann", start_ts |-> ts, end_ts |-> ts,
     duration_seconds |-> 1, rate_per_hour |-> 60, cost |-> Cost(TicksPerSecond, 60)]

\* an item_sales row of one item at 25 EGP, saved at ts
StoredSale(ts) == [ts |-> ts, item_id |-> 1, qty |-> 1, total |-> 25]

\* the tables as earlier runs may have left them, rows in the order of
\* their timestamps
StoredSessions ==
    {q \in UNION {[1..n -> {StoredSession(ts) : ts \in StoredTimes}] : n \in 0..MaxSessions} :
        \A i \in 1..(Len(q) - 1) : q[i].start_ts <= q[i + 1].start_ts}
StoredSales ==
    {q \in UNION {[1..n -> {StoredSale(ts) : ts \in {0, 1}}] : n \in 0..MaxSales} :
        \A i \in 1..(Len(q) - 1) : q[i].ts <= q[i + 1].ts}

\* the state after construction over a database file that holds rows
InitReport ==
    /\ now = 0
    /\ running = [s \in Stations |-> FALSE]
    /\ paused = [s \in Stations |-> FALSE]
    /\ start_ts = [s \in Stations |-> None]
    /\ elapsed = [s \in Stations |-> 0]
    /\ customer_name = [s \in Stations |-> ""]
    /\ rate_var = [s \in Stations |-> StationRate(s)]
    /\ sessions \in StoredSessions
    /\ lastCmd = [s \in Stations |-> "none"]
    /\ started = [s \in Stations |-> NotStarted]
    /\ active = [s \in Stations |-> 0]
    /\ notified = [on |-> FALSE, calls |-> <<>>]
    /\ items = <<>>
    /\ nextItemId = 1
    /\ item_sales \in StoredSales
    /\ cash_transactions = <<>>
    /\ itemDialogs = {}
    /\ saleDialogs = {}
    /\ cash_type = "deposit"
    /\ cash_amount = 0
    /\ cash_notes = ""
    /\ lastShop = "none"

\* the reports tab beside the cash form, with the clock
NextReport ==
    \/ \E mode \in {"daily", "monthly"} : BuildReport(mode)
    \/ ExportReport
    \/ \E type \in CashTypes : FillCashForm(type, 5, "")
    \/ AddCash
    \/ AdvanceClock

SpecReport == InitReport /\ [][NextReport]_vars

\* ------------------------------------------------------------ type sanity
TypeOK ==
    /\ now \in 0..MaxTime
    /\ running \in [Stations -> BOOLEAN]
    /\ paused \in [Stations -> BOOLEAN]
    /\ \A s \in Stations : start_ts[s] = None \/ (Len(start_ts[s]) = 1 /\ Head(start_ts[s]) \in 0..MaxTime)
    /\ \A s \in Stations : elapsed[s] \in 0..MaxTime
    /\ customer_name \in [Stations -> Names]
    /\ rate_var \in [Stations -> Rates]
    /\ Len(sessions) <= MaxSessions

\* the row a step has just appended
NewRow == sessions'[Len(sessions')]

\* the step is the stop command on station s, issued while Running or Paused
EffectiveStop(s) == running[s] /\ StopStation(s)

\* ---------------------------------------------------------------- claims

\* C1: the sessions table starts empty and every step adds exactly one row
\* when it is a stop command issued on a Running or Paused station, and no
\* row otherwise (start, pause, resume, reset, tick, rate edit, clock, stop on
\* a Stopped station); the rows already there stay.  Hence the number of
\* rows is the number of such stop commands.
C1_RowsCountStops ==
    /\ Len(sessions) = 0
    /\ [][/\ Len(sessions') = Len(sessions)
                + (IF \E s \in Stations : EffectiveStop(s) THEN 1 ELSE 0)
          /\ SubSeq(sessions', 1, Len(sessions)) = sessions]_vars

\* two stops on a started station have each left their row
C1_Witness ==
    /\ Len(sessions) = 2
    /\ \E s \in Stations : lastCmd[s] = "stop" /\ IsStopped(s)

\* C2: across any step other than reset, current_elapsed() of a station that
\* is Running before and after does not decrease, and that of a station that
\* is Paused before and after, or Stopped before and after, is the same,
\* however the clock moved.
C2_ElapsedMonotone ==
    [][\A s \in Stations :
        ~ResetStation(s) =>
            /\ (IsRunning(s) /\ IsRunning(s)') => current_elapsed(s)' >= current_elapsed(s)
            /\ (IsPaused(s) /\ IsPaused(s)') => current_elapsed(s)' = current_elapsed(s)
            /\ (IsStopped(s) /\ IsStopped(s)') => current_elapsed(s)' = current_elapsed(s)]_vars

\* Running again after a pause during which the clock advanced: the elapsed
\* time has grown since the start and is less than the clock time since then
C2_Witness ==
    \E s \in Stations :
        /\ IsRunning(s)
        /\ started[s].paused
        /\ current_elapsed(s) > started[s].base
        /\ current_elapsed(s) - started[s].base < now - started[s].at

\* C3: a station whose last effective command is reset is Stopped with
\* accumulated elapsed 0, current_elapsed() 0 and an empty customer name, and
\* the reset step itself, from whatever state, appends no row.
C3_ResetDiscards ==
    /\ [](\A s \in Stations :
            lastCmd[s] = "reset" =>
                /\ IsStopped(s)
                /\ elapsed[s] = 0
                /\ current_elapsed(s) = 0
                /\ customer_name[s] = "")
    /\ [][\A s \in Stations : ResetStation(s) => sessions' = sessions]_vars

\* a reset of a session that was started for a customer, paused and never
\* stopped: it is gone and no row was written
C3_Witness ==
    \E s \in Stations :
        /\ lastCmd[s] = "reset"
        /\ started[s].paused
        /\ started[s].at < now
        /\ sessions = <<>>

\* C4 (as claimed): the start command on a Running or Paused station, and the
\* pause or stop command on a Stopped station, leave the station's state,
\* accumulated elapsed, anchor and customer name as they were and append no
\* row.
C4_NoOpChangesNothing ==
    [][\A s \in Stations :
        (\/ running[s] /\ \E c \in Names : StartStation(s, c)
         \/ ~running[s] /\ PauseStation(s)
         \/ ~running[s] /\ StopStation(s))
        => /\ running'[s] = running[s]
           /\ paused'[s] = paused[s]
           /\ elapsed'[s] = elapsed[s]
           /\ start_ts'[s] = start_ts[s]
           /\ customer_name'[s] = customer_name[s]
           /\ sessions' = sessions]_vars

\* C5: the pause command on a Paused station makes it Running with the anchor
\* at the current instant and the accumulated elapsed unchanged, so that
\* current_elapsed() is the same just after as just before; at every moment
\* current_elapsed() is exactly the clock time the station spent Running
\* since its last reset (none of the time spent Paused), and so is the
\* duration a later stop records.
C5_ResumeExcludesPause ==
    /\ [][\A s \in Stations :
            (IsPaused(s) /\ PauseStation(s)) =>
                /\ IsRunning(s)'
                /\ start_ts'[s] = <<now>>
                /\ elapsed'[s] = elapsed[s]
                /\ current_elapsed(s)' = current_elapsed(s)]_vars
    /\ [](\A s \in Stations : current_elapsed(s) = active[s])
    /\ [][\A s \in Stations :
            EffectiveStop(s) => NewRow.duration_seconds = WholeSeconds(active[s])]_vars

\* resumed after a pause during which the clock advanced, and running on
C5_Witness ==
    \E s \in Stations :
        /\ lastCmd[s] = "resume"
        /\ IsRunning(s)
        /\ now > Head(start_ts[s])
        /\ active[s] - started[s].base < now - started[s].at

\* C6: the pause command on a Running station makes it Paused and adds
\* exactly (now - anchor) to the accumulated elapsed, and current_elapsed()
\* at that instant is the same before and after; current_elapsed() is
\* accumulated + (now - anchor) while Running and accumulated otherwise.
C6_PauseFoldsInterval ==
    /\ [][\A s \in Stations :
            (IsRunning(s) /\ PauseStation(s)) =>
                /\ IsPaused(s)'
                /\ elapsed'[s] = elapsed[s] + (now - Head(start_ts[s]))
                /\ current_elapsed(s)' = current_elapsed(s)]_vars
    /\ [](\A s \in Stations :
            /\ IsRunning(s) => current_elapsed(s) = elapsed[s] + (now - Head(start_ts[s]))
            /\ ~IsRunning(s) => current_elapsed(s) = elapsed[s])

\* paused after running for some time: the interval is in the accumulated
\* elapsed
C6_Witness ==
    \E s \in Stations :
        /\ lastCmd[s] = "pause"
        /\ IsPaused(s)
        /\ elapsed[s] > started[s].base
        /\ now > Head(start_ts[s])

\* C7 (as claimed): a stop that follows a start with no pause between them
\* leaves the elapsed time equal to the clock delta between the two calls,
\* for every such pair.
C7_StopElapsedIsDelta ==
    [][\A s \in Stations :
        (EffectiveStop(s) /\ ~started[s].paused) =>
            elapsed'[s] = now - started[s].at]_vars

\* C7 (amended): such a stop leaves the elapsed time equal to the accumulated
\* elapsed the station held when start was called plus the clock delta
\* between the two calls; that is the clock delta alone when the start was
\* made on a station that was fresh or had last been reset.
C7_StopElapsedIsBasePlusDelta ==
    [][\A s \in Stations :
        (EffectiveStop(s) /\ ~started[s].paused) =>
            /\ elapsed'[s] = started[s].base + (now - started[s].at)
            /\ (started[s].clean => elapsed'[s] = now - started[s].at)]_vars

\* the second start/stop pair of a station that was not reset in between
C7_Witness ==
    \E s \in Stations :
        /\ lastCmd[s] = "stop"
        /\ ~started[s].paused
        /\ started[s].base > 0
        /\ elapsed[s] > started[s].base
        /\ elapsed[s] > now - started[s].at

\* C8: the start command on a Stopped station makes it Running with the
\* anchor at the current instant and leaves the accumulated elapsed as it
\* was: 0 when the station is fresh or was last reset, the carried value
\* otherwise.
C8_StartKeepsElapsed ==
    [][\A s \in Stations :
        (~running[s] /\ \E c \in Names : StartStation(s, c)) =>
            /\ IsRunning(s)'
            /\ start_ts'[s] = <<now>>
            /\ elapsed'[s] = elapsed[s]
            /\ (lastCmd[s] \in {"none", "reset"} => elapsed'[s] = 0)]_vars

\* started again after a stop without reset: the earlier time is carried
C8_Witness ==
    \E s \in Stations :
        /\ lastCmd[s] = "start"
        /\ IsRunning(s)
        /\ started[s].base > 0
        /\ elapsed[s] = started[s].base

\* C9: the row a stop appends holds the whole seconds of current_elapsed()
\* at the stop (the accumulated value when Paused, accumulated +
\* (now - anchor) when Running), the station's rate at the stop, and the cost
\* elapsed / 3600 * that rate; no later step alters a stored row.
C9_RowFreezesRateAndCost ==
    /\ [][\A s \in Stations :
            EffectiveStop(s) =>
                /\ NewRow.station_name = s
                /\ NewRow.duration_seconds = WholeSeconds(current_elapsed(s))
                /\ IsPaused(s) => NewRow.duration_seconds = WholeSeconds(elapsed[s])
                /\ IsRunning(s) => NewRow.duration_seconds
                                      = WholeSeconds(elapsed[s] + (now - Head(start_ts[s])))
                /\ NewRow.rate_per_hour = rate_var[s]
                /\ NewRow.cost = current_elapsed(s) * rate_var[s]]_vars
    /\ [][\A i \in 1..Len(sessions) : sessions'[i] = sessions[i]]_vars

\* a stored row of a session that had a part of a second on its clock, whose
\* station has since been given another rate
C9_Witness ==
    \E i \in 1..Len(sessions) :
        /\ sessions[i].rate_per_hour # rate_var[sessions[i].station_name]
        /\ sessions[i].cost > 0
        /\ sessions[i].cost # sessions[i].duration_seconds * TicksPerSecond * sessions[i].rate_per_hour

\* C10 (as claimed): the row a stop appends has as start timestamp the
\* instant the session was started and as end timestamp the instant of the
\* stop, so that end - start is at least the recorded duration.
C10_RowStartIsSessionStart ==
    [][\A s \in Stations :
        EffectiveStop(s) =>
            /\ NewRow.start_ts = started[s].at \div TicksPerSecond
            /\ NewRow.end_ts = now \div TicksPerSecond
            /\ NewRow.end_ts - NewRow.start_ts >= NewRow.duration_seconds]_vars

\* what a cost query shows for the stations in the current state
LiveDashboard == Dashboard(running, paused, start_ts, elapsed, rate_var, now)

\* C11: at every query the live cost of a station is the elapsed time
\* (accumulated, plus now - anchor while Running) / 3600 * the rate the
\* station has at that query, and the cost label is that amount formatted; a
\* rate edit changes nothing but the rate, so the query after it prices the
\* whole elapsed time, accrued before the edit included, at the new rate.
C11_LiveCostUsesCurrentRate ==
    /\ [](\A s \in Stations :
            LET e == IF IsRunning(s) THEN elapsed[s] + (now - Head(start_ts[s]))
                     ELSE elapsed[s]
            IN /\ LiveDashboard[s].cost = e * rate_var[s]
               /\ LiveDashboard[s].cost_label = format_currency(e * rate_var[s]))
    /\ [][\A s \in Stations, r \in Rates :
            SetRate(s, r) =>
                /\ current_elapsed(s)' = current_elapsed(s)
                /\ LiveDashboard'[s].cost = current_elapsed(s) * r]_vars

\* a Running station with time on its clock and a rate other than the
\* configured one: the cost and its label differ from those at the
\* configured rate
C11_Witness ==
    \E s \in Stations :
        /\ IsRunning(s)
        /\ current_elapsed(s) > 0
        /\ rate_var[s] # StationRate(s)
        /\ LiveDashboard[s].cost # current_elapsed(s) * StationRate(s)
        /\ LiveDashboard[s].cost_label # format_currency(current_elapsed(s) * StationRate(s))

\* ------------------------------------------------ items and cash claims

\* the rows of table old are all there, unchanged and in place, in table new
IsPrefix(old, new) ==
    /\ Len(new) >= Len(old)
    /\ \A i \in 1..Len(old) : new[i] = old[i]

\* the step has appended a row to item_sales; the row
SaleAppended == Len(item_sales') = Len(item_sales) + 1
NewSale == item_sales'[Len(item_sales')]

\* the step has appended a row to cash_transactions; the row
CashAppended == Len(cash_transactions') = Len(cash_transactions) + 1
NewCash == cash_transactions'[Len(cash_transactions')]

\* C12 (as claimed): every row appended to item_sales has total = the price
\* the item has in the items table when the row is appended, times the
\* quantity.
C12_TotalUsesCurrentPrice ==
    [][(SaleAppended /\ NewSale.item_id \in ItemIds) =>
            NewSale.total = items[NewSale.item_id].price * NewSale.qty]_vars

\* C13 (as claimed): no row is appended to item_sales whose item is not in
\* the items table when the row is appended.
C13_NoSaleOfMissingItem ==
    [][SaleAppended => NewSale.item_id \in ItemIds]_vars

\* --------------------------------------------- claims on storage failure

\* C14 (as claimed): a stop command whose write of the sessions row fails
\* leaves the station's in-memory session as it was before the command:
\* same state (Running or Paused), same accumulated elapsed, same anchor,
\* same customer name; so the station is still not Stopped and a further
\* stop can persist the session.
C14_FailedStopKeepsSession ==
    [][\A s \in Operated : StopStationFails(s) =>
            /\ running'[s] = running[s]
            /\ paused'[s] = paused[s]
            /\ elapsed'[s] = elapsed[s]
            /\ start_ts'[s] = start_ts[s]
            /\ customer_name'[s] = customer_name[s]]_vars

\* ---------------------------------------------------- claims on the rate

\* C16 (as claimed): the hourly rate of every station is never negative,
\* and so neither is the live cost shown for a station nor the rate or the
\* cost of any sessions row.
C16_RateNeverNegative ==
    /\ \A s \in Stations : rate_var[s] >= 0
    /\ \A s \in Stations : LiveDashboard[s].cost >= 0
    /\ \A i \in 1..Len(sessions) :
           sessions[i].rate_per_hour >= 0 /\ sessions[i].cost >= 0

\* C15 (as claimed): every row of cash_transactions has type deposit or
\* withdrawal, whatever the type field of the form held when Add was
\* pressed.
C15_CashKindIsDepositOrWithdrawal ==
    \A i \in 1..Len(cash_transactions) :
        cash_transactions[i].type \in {"deposit", "withdrawal"}

\* C17: item_sales, cash_transactions and sessions are append-only: over
\* every step (start, stop, add, edit, delete and sell item, add cash) each
\* row already in one of them is still there, in its place and unchanged;
\* and a step that deletes an item leaves item_sales exactly as it was, the
\* rows of the deleted item included.
C17_TablesAppendOnly ==
    [][/\ IsPrefix(item_sales, item_sales')
       /\ IsPrefix(cash_transactions, cash_transactions')
       /\ IsPrefix(sessions, sessions')
       /\ (\E sel \in 1..MaxItems : sel \in ItemIds /\ DeleteItem(sel, TRUE))
              => item_sales' = item_sales]_vars

\* an item with a sale has been deleted and its sale row is in the table,
\* beside a cash row and a sessions row
C17_Witness ==
    /\ lastShop = "item_deleted"
    /\ \E i \in 1..Len(item_sales) : item_sales[i].item_id \notin ItemIds
    /\ Len(cash_transactions) > 0
    /\ Len(sessions) > 0

\* the tables the database holds
persisted == <<items, nextItemId, item_sales, cash_transactions, sessions>>

\* C18: confirming a sale with a quantity below 1 appends no row and leaves
\* every table as it was; confirming with a quantity q >= 1 appends exactly
\* one row, of quantity q, after the rows already there; and every row of
\* item_sales has quantity >= 1.
C18_SaleQuantity ==
    /\ \A i \in 1..Len(item_sales) : item_sales[i].qty >= 1
    /\ [][\A d \in AllSaleDialogs, q \in Qtys : SaleDialogConfirm(d, q) =>
              IF q < 1
              THEN UNCHANGED persisted
              ELSE /\ SaleAppended
                   /\ IsPrefix(item_sales, item_sales')
                   /\ NewSale.qty = q
                   /\ UNCHANGED <<items, nextItemId, cash_transactions, sessions>>]_vars

\* a sale has been recorded and a later confirmation in another open sale
\* dialog has been turned down
C18_Witness ==
    /\ lastShop = "sale_rejected"
    /\ saleDialogs # {}
    /\ Len(item_sales) = 1

\* C19: every row of items has a non-empty name and a price above 0; a save
\* in an add or edit dialog with a name that is empty once stripped, or with
\* a price <= 0, leaves the items table as it was, and an accepted save
\* stores the stripped name and the price.
C19_ItemsValid ==
    /\ \A i \in ItemIds : items[i].name # <<>> /\ items[i].price > 0
    /\ [][\A d \in AllItemDialogs, text \in NameTexts, price \in Prices :
              ItemDialogSave(d, text, price) =>
                  IF Strip(text) = <<>> \/ price <= 0
                  THEN UNCHANGED <<items, nextItemId>>
                  ELSE \A i \in (IF d.kind = "add" THEN {nextItemId}
                                 ELSE {d.item_id} \cap ItemIds) :
                           items'[i] = [name |-> Strip(text), price |-> price]]_vars

\* an item is in the table and a save in an open dialog has been turned down
C19_Witness ==
    /\ lastShop = "item_rejected"
    /\ ItemIds # {}
    /\ itemDialogs # {}

\* C20: Add on the cash form with an amount <= 0 appends no row and leaves
\* the type, amount and notes of the form as entered; with an amount above 0
\* it appends exactly one row carrying the form's type, amount and notes,
\* after the rows already there; and every row of cash_transactions has an
\* amount above 0.
C20_CashAmount ==
    /\ \A i \in 1..Len(cash_transactions) : cash_transactions[i].amount > 0
    /\ [][AddCash =>
              IF cash_amount <= 0
              THEN UNCHANGED <<cash_transactions, cash_type, cash_amount, cash_notes>>
              ELSE /\ CashAppended
                   /\ IsPrefix(cash_transactions, cash_transactions')
                   /\ NewCash.amount = cash_amount
                   /\ NewCash.type = cash_type
                   /\ NewCash.notes = cash_notes]_vars

\* Add has just been turned down on a form holding a negative amount and a
\* note, with a row already in the table
C20_Witness ==
    /\ lastShop = "cash_rejected"
    /\ cash_amount < 0
    /\ cash_notes # ""
    /\ Len(cash_transactions) = 1

\* ------------------------------------------- claims on the station fields

\* C25 (as claimed): the anchor start_ts is set only while the station is
\* actively Running; in every state in which the station is Paused or
\* Stopped it is None.
C25_AnchorOnlyWhileRunning ==
    \A s \in Stations : ~IsRunning(s) => start_ts[s] = None

\* C26: in every state the flags of a station are one of Stopped (running
\* false, paused false), Running (running true, paused false, anchor set)
\* and Paused (running true, paused true): paused is never true while
\* running is false, and the anchor is never None while the station is
\* actively Running, so current_elapsed() always has an anchor to subtract.
C26_FlagsEncodeOneState ==
    \A s \in Stations :
        /\ paused[s] => running[s]
        /\ IsRunning(s) => start_ts[s] # None
        /\ \/ IsStopped(s) /\ ~paused[s]
           \/ IsRunning(s) /\ start_ts[s] # None
           \/ IsPaused(s)
        /\ current_elapsed(s) \in Nat

\* a station has been stopped after a session that was paused, and started
\* again: it is actively Running on a fresh anchor
C26_Witness ==
    \E s \in Stations :
        /\ IsRunning(s)
        /\ started[s].base > 0
        /\ lastCmd[s] = "start"
        /\ Len(sessions) > 0

\* ------------------------------------------------- claims on the callback

\* the step is a command on station s
CommandOn(s) ==
    \/ \E c \in Names : StartStation(s, c)
    \/ PauseStation(s)
    \/ StopStation(s)
    \/ ResetStation(s)

\* the step is a command on station s that performs a transition: a start
\* while Stopped, a pause or resume or stop while Running or Paused, a reset
Transition(s) ==
    \/ ~running[s] /\ \E c \in Names : StartStation(s, c)
    \/ running[s] /\ PauseStation(s)
    \/ running[s] /\ StopStation(s)
    \/ ResetStation(s)

\* C24: a start, pause, resume, stop or reset that performs a transition
\* calls on_update exactly once, and the call sees the fields as the method
\* has updated them; a command that is a no-op (start while Running or
\* Paused, pause or stop while Stopped) changes no field and calls it zero
\* times.
C24_OneCallbackPerTransition ==
    [][\A s \in Stations :
          /\ Transition(s) => notified'.calls = <<engine'>>
          /\ (CommandOn(s) /\ ~Transition(s)) =>
                 (notified'.calls = <<>> /\ UNCHANGED engine)]_vars

\* the callback of a pause has just run and seen the station Paused with
\* the interval folded into elapsed
C24_Witness ==
    \E s \in Stations :
        /\ IsPaused(s)
        /\ lastCmd[s] = "pause"
        /\ elapsed[s] > 0
        /\ notified.calls = <<engine>>

\* --------------------------------------------- claims on several stations

\* C27: a start, pause, resume, stop or reset command on one station leaves
\* the flags, the accumulated elapsed, the anchor and the customer name of
\* every other station unchanged, and the row a stop appends carries the
\* name of the station the stop was issued on.
C27_StationsIndependent ==
    [][\A s \in Stations :
          /\ CommandOn(s) =>
                \A o \in Stations \ {s} :
                    /\ running'[o] = running[o]
                    /\ paused'[o] = paused[o]
                    /\ elapsed'[o] = elapsed[o]
                    /\ start_ts'[o] = start_ts[o]
                    /\ customer_name'[o] = customer_name[o]
          /\ EffectiveStop(s) =>
                /\ Len(sessions') = Len(sessions) + 1
                /\ NewRow.station_name = s]_vars

\* both stations are in a session of their own: one Paused with time on
\* it, the other Running for a named customer, and a row of the second
\* station is in the table
C27_Witness ==
    /\ IsPaused("Table 1") /\ elapsed["Table 1"] > 0
    /\ IsRunning("PlayStation 1") /\ customer_name["PlayStation 1"] = "Ann"
    /\ \E i \in 1..Len(sessions) : sessions[i].station_name = "PlayStation 1"

\* -------------------------------------------------- claims on the reports

\* the timestamp falls in the period of the mode: on the report day, or in
\* the report month
InPeriod(ts, mode) ==
    IF mode = "daily" THEN DayOf(ts) = Today
    ELSE FirstDayOfMonth(DayOf(ts), 1, 0) = FirstDayOfMonth(Today, 1, 0)

\* deposits minus withdrawals over the rows
DepositsMinusWithdrawals(rows) ==
    SumOf("amount", SelectSeq(rows, LAMBDA r : r.type = "deposit"))
        - SumOf("amount", SelectSeq(rows, LAMBDA r : r.type = "withdrawal"))

\* C21 (as claimed): for either period the report's session revenue is the
\* sum of cost over the sessions rows whose start timestamp is in the
\* period, its item sales the sum of total over the item_sales rows in the
\* period, its cash net the deposits minus the withdrawals among the cash
\* rows in the period, and its total revenue the session revenue plus the
\* item sales; each figure is 0 when no row is in the period.
C21_ReportFigures ==
    \A mode \in {"daily", "monthly"} :
        LET rep == Report(mode) IN
        /\ rep.session_revenue =
               SumOf("cost", SelectSeq(sessions, LAMBDA r : InPeriod(r.start_ts, mode)))
        /\ rep.item_sales =
               SumOf("total", SelectSeq(item_sales, LAMBDA r : InPeriod(r.ts, mode)))
        /\ rep.cash_net =
               DepositsMinusWithdrawals(
                   SelectSeq(cash_transactions, LAMBDA r : InPeriod(r.ts, mode)))
        /\ rep.total_revenue = rep.session_revenue + InCostUnits(rep.item_sales)

\* C22: under the text comparison of the daily report a sessions row is
\* counted exactly when its start timestamp is on the report day: the
\* timestamps 00:00:00 and 23:59:59 of the report day pass, 23:59:59 of the
\* day before and 00:00:00 of the day after do not, and the session revenue
\* of the daily report is the cost of the rows of the report day.
C22_DailyWindowInclusive ==
    /\ InWindow(Midnight(Today), "daily")
    /\ InWindow(Midnight(Today + 1) - 1, "daily")
    /\ ~InWindow(Midnight(Today) - 1, "daily")
    /\ ~InWindow(Midnight(Today + 1), "daily")
    /\ \A i \in 1..Len(sessions) :
           InWindow(sessions[i].start_ts, "daily") <=> DayOf(sessions[i].start_ts) = Today
    /\ Report("daily").session_revenue =
           SumOf("cost", SelectSeq(sessions, LAMBDA r : DayOf(r.start_ts) = Today))

\* the clock has passed midnight; the table holds a row of the last second
\* of the new report day and a row of the first second of the day after,
\* and the daily report counts one
C22_Witness ==
    /\ \E i \in 1..Len(sessions) : sessions[i].start_ts = Midnight(Today + 1) - 1
    /\ \E i \in 1..Len(sessions) : sessions[i].start_ts = Midnight(Today + 1)
    /\ Len(sessions) = 2
    /\ now_iso = 1
    /\ Report("daily").session_revenue = Cost(TicksPerSecond, 60)

\* C23 (as claimed): the export is a header row and three rows, Sessions,
\* Item Sales and Cash Net, holding the sum of cost over all sessions rows,
\* the sum of total over all item_sales rows and the deposits minus the
\* withdrawals over all cash rows; all three are zero over empty tables.
C23_ExportTotals ==
    ExportRows =
        << <<"Section", "Amount (EGP)">>,
           <<"Sessions", format_currency(SumOf("cost", sessions))>>,
           <<"Item Sales", format_currency(InCostUnits(SumOf("total", item_sales)))>>,
           <<"Cash Net",
             format_currency(InCostUnits(DepositsMinusWithdrawals(cash_transactions)))>> >>

====
